---- MODULE Spec2Model ----
(***************************************************************************)
(* A model of tunik's fuzzy list: FuzzyListState (the filter state machine *)
(* and the selection cursor), FuzzyListItem::matches (the span rewrite)    *)
(* and FuzzyList::get_items_bounds / render (the viewport window).         *)
(*                                                                         *)
(* Strings are sequences of one-character strings, indices are 0-based as  *)
(* in the source, and Option<T> is a sequence of length 0 (None) or 1      *)
(* (Some(x) = <<x>>).                                                      *)
(***************************************************************************)
EXTENDS Integers, Sequences, FiniteSets, TLC

VARIABLES offset, selected, filter, items, filtered, matcher,
          original, lastq, pre, last, probe

vars == <<offset, selected, filter, items, filtered, matcher,
          original, lastq, pre, last, probe>>

----------------------------------------------------------------------------
(* Bounds of the model *)

\* longest Collection
MaxItems == 3
\* largest list_area.height handed to render
MaxHeight == 2
\* largest max_height handed to get_items_bounds in the windowing specification
MaxBudget == 3
\* longest list of the windowing specification
MaxList == 3
\* tallest item (in lines) of the windowing specification
MaxItemHeight == 2
\* the longest segment text, the longest query and the largest start index a
\* matcher reports, for the highlighting of one segment
MaxSegment == 3
MaxQuery == 2
MaxIndex == 2

----------------------------------------------------------------------------
(* Option<T> *)

None == <<>>
Some(x) == <<x>>
is_some(o) == Len(o) = 1
is_none(o) == Len(o) = 0
unwrap_or(o, d) == IF is_some(o) THEN o[1] ELSE d
OptionOf(S) == {None} \cup {Some(x) : x \in S}

Min(a, b) == IF a < b THEN a ELSE b

\* content[a..b] of the source: 0-based, a inclusive, b exclusive
Slice(s, a, b) == [k \in 1..(b - a) |-> s[a + k]]
\* a slice panics when a > b or b > len
SliceOk(s, a, b) == a <= b /\ b <= Len(s)

----------------------------------------------------------------------------
(* Styles, spans and items *)

\* Style::default(), the style of Span::raw
DefaultStyle == "default"

Span(content, style) == [content |-> content, style |-> style]
SpanRaw(content) == Span(content, DefaultStyle)

\* FuzzyListItem::new(content).filter_style(fs): content is a Text, a sequence
\* of lines, each a sequence of spans
Item(content, fs) == [content |-> content, style |-> DefaultStyle, filter_style |-> fs]

height(item) == Len(item.content)

\* the text of a line: the concatenation of its spans' contents
RECURSIVE LineText(_)
LineText(line) ==
    IF Len(line) = 0 THEN <<>> ELSE Head(line).content \o LineText(Tail(line))

\* the text of an item, line by line
ItemText(item) == [i \in 1..Len(item.content) |-> LineText(item.content[i])]

----------------------------------------------------------------------------
(* The matcher capability: matcher.fuzzy_indices(choice, pattern) of       *)
(* SkimMatcherV2.  A fuzzy (subsequence) match; the result is              *)
(* Some(indices) with the 0-based positions of the matched characters, or  *)
(* None.  The model reports the leftmost embedding of the pattern.         *)

RECURSIVE LeftEmbed(_, _, _, _)
LeftEmbed(content, pattern, c, f) ==
    IF f > Len(pattern) THEN Some(<<>>)
    ELSE IF c > Len(content) THEN None
    ELSE IF content[c] = pattern[f]
         THEN LET r == LeftEmbed(content, pattern, c + 1, f + 1)
              IN  IF is_none(r) THEN None ELSE Some(<<c - 1>> \o r[1])
         ELSE LeftEmbed(content, pattern, c + 1, f)

\* SkimMatcherV2::default(), the only matcher a FuzzyListState is built with
SkimMatcherV2 == "SkimMatcherV2"

fuzzy_indices(m, content, pattern) == LeftEmbed(content, pattern, 1, 1)

----------------------------------------------------------------------------
(* FuzzyListItem::matches *)

\* the body of the flat_map closure for one span, given the matcher's answer
span_rewrite(span, match_indices, pattern, filter_style) ==
    LET content == span.content
        n == Len(content)
        q == Len(pattern)
    IN  IF is_none(match_indices)
        THEN [spans |-> <<SpanRaw(content)>>, matched |-> FALSE, panic |-> FALSE]
        ELSE IF Len(match_indices[1]) = 0
        THEN \* indices.1.first().unwrap() on an empty vector
             [spans |-> <<>>, matched |-> TRUE, panic |-> TRUE]
        ELSE
        LET index == match_indices[1][1]
        IN  IF q > n
            THEN \* content.len() - filter.len() underflows: a panic in a debug
                 \* build; in a release build it wraps and the slices that
                 \* follow (index + q > n, or q > n) panic
                 [spans |-> <<>>, matched |-> TRUE, panic |-> TRUE]
            ELSE IF index > 0 /\ index < n - q
            THEN IF SliceOk(content, 0, index) /\ SliceOk(content, index, index + q)
                    /\ SliceOk(content, index + q, n)
                 THEN [spans |-> << SpanRaw(Slice(content, 0, index)),
                                    Span(Slice(content, index, index + q), filter_style),
                                    SpanRaw(Slice(content, index + q, n)) >>,
                       matched |-> TRUE, panic |-> FALSE]
                 ELSE [spans |-> <<>>, matched |-> TRUE, panic |-> TRUE]
            ELSE IF index = 0
            THEN [spans |-> << Span(Slice(content, 0, q), filter_style),
                               SpanRaw(Slice(content, q, n)) >>,
                  matched |-> TRUE, panic |-> FALSE]
            ELSE [spans |-> << SpanRaw(Slice(content, 0, n - q)),
                               Span(Slice(content, n - q, n), filter_style) >>,
                  matched |-> TRUE, panic |-> FALSE]

\* the flat_map over the spans of one line
RECURSIVE rewrite_spans(_, _, _, _)
rewrite_spans(spans, m, pattern, filter_style) ==
    IF Len(spans) = 0
    THEN [spans |-> <<>>, matched |-> FALSE, panic |-> FALSE]
    ELSE LET h == span_rewrite(Head(spans),
                               fuzzy_indices(m, Head(spans).content, pattern),
                               pattern, filter_style)
             t == rewrite_spans(Tail(spans), m, pattern, filter_style)
         IN  [spans |-> h.spans \o t.spans,
              matched |-> h.matched \/ t.matched,
              panic |-> h.panic \/ t.panic]

\* item.matches(matcher, filter): the rewritten item and the returned flag
matches(item, m, pattern) ==
    LET lines == [i \in 1..Len(item.content) |->
                     rewrite_spans(item.content[i], m, pattern, item.filter_style)]
    IN  [item |-> [item EXCEPT !.content = [i \in 1..Len(item.content) |-> lines[i].spans]],
         matched |-> \E i \in 1..Len(item.content) : lines[i].matched,
         panic |-> \E i \in 1..Len(item.content) : lines[i].panic]

----------------------------------------------------------------------------
(* FuzzyListState *)

\* the fields of FuzzyListState that the operations write
State == [offset |-> offset, selected |-> selected,
          filter |-> filter, filtered |-> filtered]

\* select(index)
select(st, index) ==
    [st EXCEPT !.selected = index,
               !.offset = IF is_none(index) THEN 0 ELSE st.offset]

\* increment_selected(): select(self.selected.map(|v| v + 1).or(Some(0)))
increment_selected(st) ==
    select(st, IF is_some(st.selected) THEN Some(st.selected[1] + 1) ELSE Some(0))

\* faulty variant: decrementing at index 0 drops the selection
decrement_selected_to_none(st) ==
    select(st, IF is_some(st.selected) /\ st.selected[1] > 0
               THEN Some(st.selected[1] - 1)
               ELSE None)

\* decrement_selected(): select(self.selected.map(|v| if v > 0 { v - 1 } else { v }))
decrement_selected(st) ==
    select(st, IF is_some(st.selected)
               THEN Some(IF st.selected[1] > 0 THEN st.selected[1] - 1 ELSE st.selected[1])
               ELSE None)

\* get_filter()
get_filter(st) == st.filter

\* faulty variant: the empty query is not normalized away
normalize_filter_identity(arg) == arg

\* let filter = filter.filter(|f| !f.is_empty());
normalize_filter(arg) ==
    IF is_some(arg) /\ Len(arg[1]) = 0 THEN None ELSE arg

\* self.items[i].clone()
clone(item) == item

\* faulty variant: the scan keeps every item, matched or not
RECURSIVE filter_map_keep_all(_, _, _, _)
filter_map_keep_all(its, i, m, pattern) ==
    IF i > Len(its)
    THEN [filtered |-> <<>>, items |-> its, panic |-> FALSE]
    ELSE LET r == matches(its[i], m, pattern)
             t == filter_map_keep_all(its, i + 1, m, pattern)
         IN  [filtered |-> (IF ~r.panic THEN <<r.item>> ELSE <<>>) \o t.filtered,
              items |-> t.items,
              panic |-> r.panic \/ t.panic]

\* faulty variant: matches rewrites the item of the Collection, not a clone
RECURSIVE filter_map_in_place(_, _, _, _)
filter_map_in_place(its, i, m, pattern) ==
    IF i > Len(its)
    THEN [filtered |-> <<>>, items |-> its, panic |-> FALSE]
    ELSE LET r == matches(its[i], m, pattern)
             t == filter_map_in_place(its, i + 1, m, pattern)
         IN  [filtered |-> (IF r.matched /\ ~r.panic THEN <<r.item>> ELSE <<>>) \o t.filtered,
              items |-> IF r.panic THEN t.items ELSE [t.items EXCEPT ![i] = r.item],
              panic |-> r.panic \/ t.panic]

\* (0..len).map(|i| self.items[i].clone()).filter_map(...).collect(), from index
\* i: the collected vector, and the scanned sequence as the scan leaves it
\* (matches rewrites the clone it is given)
RECURSIVE filter_map(_, _, _, _)
filter_map(its, i, m, pattern) ==
    IF i > Len(its)
    THEN [filtered |-> <<>>, items |-> its, panic |-> FALSE]
    ELSE LET r == matches(clone(its[i]), m, pattern)
             t == filter_map(its, i + 1, m, pattern)
         IN  [filtered |-> (IF r.matched /\ ~r.panic THEN <<r.item>> ELSE <<>>) \o t.filtered,
              items |-> t.items,
              panic |-> r.panic \/ t.panic]

\* faulty variant: every non-empty query re-filters, the unchanged one too
should_filter_any_query(f, old) == is_some(f)

\* let should_filter = match (filter, self.filter.clone()) { ... }: the flag
should_filter(f, old) ==
    \/ is_some(f) /\ is_none(old)
    \/ is_some(f) /\ is_some(old) /\ f[1] # old[1]

\* faulty variant: a new query narrows the previous view
scan_source_narrowing(st, its) ==
    IF Len(st.filtered) > 0 THEN st.filtered ELSE its

\* the sequence the scan runs over: (0..len).map(|i| self.items[i].clone())
scan_source(st, its) == its

\* set_filter(filter): the state it leaves, and whether it panicked
set_filter(st, its, m, arg) ==
    LET f == normalize_filter(arg)
        old == st.filter
        cleared == is_none(f) /\ is_some(old)
        rescan == should_filter(f, old)
        scan == IF rescan
                THEN filter_map(scan_source(st, its), 1, m, f[1])
                ELSE [filtered |-> <<>>, items |-> its, panic |-> FALSE]
    IN  [offset |-> st.offset,
         selected |-> IF rescan THEN None ELSE st.selected,
         filter |-> IF is_some(f) /\ Len(f[1]) = 0 THEN None ELSE f,
         filtered |-> IF rescan THEN scan.filtered
                      ELSE IF cleared THEN <<>>
                      ELSE st.filtered,
         items |-> scan.items,
         panic |-> scan.panic]

\* faulty variant: the choice rests on the filter, not on the view being empty
get_items_by_filter(st, its) ==
    IF is_some(st.filter) THEN st.filtered ELSE its

\* get_items()
get_items(st, its) ==
    IF Len(st.filtered) = 0 THEN its ELSE st.filtered

----------------------------------------------------------------------------
(* FuzzyList::get_items_bounds *)

\* for item in self.items.iter().skip(offset) { ... end += 1 }
\* faulty variant: the for loop never breaks on the budget
RECURSIVE grow_window_unbounded(_, _, _, _)
grow_window_unbounded(its, end, h, max_height) ==
    IF end < Len(its)
    THEN grow_window_unbounded(its, end + 1, h + height(its[end + 1]), max_height)
    ELSE [end |-> end, height |-> h]

RECURSIVE grow_window(_, _, _, _)
grow_window(its, end, h, max_height) ==
    IF end < Len(its) /\ h + height(its[end + 1]) <= max_height
    THEN grow_window(its, end + 1, h + height(its[end + 1]), max_height)
    ELSE [end |-> end, height |-> h]

\* faulty variant: an if in place of the inner while, one item is dropped at most
shrink_top_once(its, start, h, max_height) ==
    IF h > max_height
    THEN IF start >= Len(its)
         THEN [start |-> start, height |-> h, panic |-> TRUE]
         ELSE LET ih == height(its[start + 1])
              IN  [start |-> start + 1, height |-> IF h > ih THEN h - ih ELSE 0,
                   panic |-> FALSE]
    ELSE [start |-> start, height |-> h, panic |-> FALSE]

\* while height > max_height { height -= items[start].height(); start += 1 }
RECURSIVE shrink_top(_, _, _, _)
shrink_top(its, start, h, max_height) ==
    IF h > max_height
    THEN IF start >= Len(its)
         THEN [start |-> start, height |-> h, panic |-> TRUE]
         ELSE LET ih == height(its[start + 1])
              IN  shrink_top(its, start + 1, IF h > ih THEN h - ih ELSE 0, max_height)
    ELSE [start |-> start, height |-> h, panic |-> FALSE]

\* faulty variant: the window grows down to the selection and never drops its top
RECURSIVE extend_down_no_shrink(_, _, _, _, _, _)
extend_down_no_shrink(its, sel, start, end, h, max_height) ==
    IF sel >= end
    THEN IF end >= Len(its)
         THEN [start |-> start, end |-> end, height |-> h, panic |-> TRUE]
         ELSE extend_down_no_shrink(its, sel, start, end + 1,
                                    h + height(its[end + 1]), max_height)
    ELSE [start |-> start, end |-> end, height |-> h, panic |-> FALSE]

\* while selected >= end { ... }
RECURSIVE extend_down(_, _, _, _, _, _)
extend_down(its, sel, start, end, h, max_height) ==
    IF sel >= end
    THEN IF end >= Len(its)
         THEN [start |-> start, end |-> end, height |-> h, panic |-> TRUE]
         ELSE LET s == shrink_top(its, start, h + height(its[end + 1]), max_height)
              IN  IF s.panic
                  THEN [start |-> s.start, end |-> end + 1, height |-> s.height, panic |-> TRUE]
                  ELSE extend_down(its, sel, s.start, end + 1, s.height, max_height)
    ELSE [start |-> start, end |-> end, height |-> h, panic |-> FALSE]

\* while height > max_height { end -= 1; height -= items[end].height() }
RECURSIVE shrink_bottom(_, _, _, _)
shrink_bottom(its, end, h, max_height) ==
    IF h > max_height
    THEN IF end = 0 \/ end - 1 >= Len(its)
         THEN [end |-> end, height |-> h, panic |-> TRUE]
         ELSE LET ih == height(its[end])
              IN  shrink_bottom(its, end - 1, IF h > ih THEN h - ih ELSE 0, max_height)
    ELSE [end |-> end, height |-> h, panic |-> FALSE]

\* while selected < start { ... }
RECURSIVE extend_up(_, _, _, _, _, _)
extend_up(its, sel, start, end, h, max_height) ==
    IF sel < start
    THEN IF start = 0 \/ start - 1 >= Len(its)
         THEN [start |-> start, end |-> end, height |-> h, panic |-> TRUE]
         ELSE LET s == shrink_bottom(its, end, h + height(its[start]), max_height)
              IN  IF s.panic
                  THEN [start |-> start - 1, end |-> s.end, height |-> s.height, panic |-> TRUE]
                  ELSE extend_up(its, sel, start - 1, s.end, s.height, max_height)
    ELSE [start |-> start, end |-> end, height |-> h, panic |-> FALSE]

\* faulty variant: the window is never extended upwards (the second while loop is missing)
get_items_bounds_no_extend_up(its, sel, off, max_height) ==
    LET off1 == Min(off, Len(its) - 1)
        g == grow_window(its, off1, 0, max_height)
        sel1 == Min(unwrap_or(sel, 0), Len(its) - 1)
        d == extend_down(its, sel1, off1, g.end, g.height, max_height)
    IN  [start |-> d.start, end |-> d.end, panic |-> d.panic]

\* faulty variant: selected is not clamped to the last item
get_items_bounds_unclamped(its, sel, off, max_height) ==
    IF Len(its) = 0
    THEN [start |-> 0, end |-> 0, panic |-> TRUE]
    ELSE
    LET off1 == Min(off, Len(its) - 1)
        g == grow_window(its, off1, 0, max_height)
        sel1 == unwrap_or(sel, 0)
        d == extend_down(its, sel1, off1, g.end, g.height, max_height)
        u == extend_up(its, sel1, d.start, d.end, d.height, max_height)
    IN  IF d.panic
        THEN [start |-> d.start, end |-> d.end, panic |-> TRUE]
        ELSE [start |-> u.start, end |-> u.end, panic |-> u.panic]

\* faulty variant: a selected index past the end wraps round to the top
get_items_bounds_wrapping(its, sel, off, max_height) ==
    IF Len(its) = 0
    THEN [start |-> 0, end |-> 0, panic |-> TRUE]
    ELSE
    LET off1 == Min(off, Len(its) - 1)
        g == grow_window(its, off1, 0, max_height)
        sel1 == unwrap_or(sel, 0) % Len(its)
        d == extend_down(its, sel1, off1, g.end, g.height, max_height)
        u == extend_up(its, sel1, d.start, d.end, d.height, max_height)
    IN  IF d.panic
        THEN [start |-> d.start, end |-> d.end, panic |-> TRUE]
        ELSE [start |-> u.start, end |-> u.end, panic |-> u.panic]

\* get_items_bounds(selected, offset, max_height) on a widget holding its
get_items_bounds(its, sel, off, max_height) ==
    IF Len(its) = 0
    THEN \* self.items.len() - 1 underflows (debug), or items[0] is read (release)
         [start |-> 0, end |-> 0, panic |-> TRUE]
    ELSE
    LET off1 == Min(off, Len(its) - 1)
        g == grow_window(its, off1, 0, max_height)
        sel1 == Min(unwrap_or(sel, 0), Len(its) - 1)
        d == extend_down(its, sel1, off1, g.end, g.height, max_height)
        u == extend_up(its, sel1, d.start, d.end, d.height, max_height)
    IN  IF d.panic
        THEN [start |-> d.start, end |-> d.end, panic |-> TRUE]
        ELSE [start |-> u.start, end |-> u.end, panic |-> u.panic]

\* StatefulWidget::render on a list area of w columns and h rows, for the
\* widget FuzzyList::new(state.get_items()): the state it leaves and the window
render(st, its, w, h) ==
    IF w < 1 \/ h < 1 \/ Len(get_items(st, its)) = 0
    THEN [offset |-> st.offset, drawn |-> FALSE, start |-> 0, end |-> 0, panic |-> FALSE]
    ELSE LET b == get_items_bounds(get_items(st, its), st.selected, st.offset, h)
         IN  [offset |-> b.start, drawn |-> TRUE, start |-> b.start, end |-> b.end,
              panic |-> b.panic]

----------------------------------------------------------------------------
(* The inputs of the model *)

a == "a"
b == "b"

\* the items a Collection is built from
TextPool ==
    { Item(<< <<SpanRaw(<<a, b, a>>)>> >>, "red"),
      Item(<< <<Span(<<b>>, "yellow"), SpanRaw(<<b, b>>)>>, <<SpanRaw(<<b>>)>> >>, "blue") }

\* the indices select is called with: the first item and one beyond the longest
\* list (increment_selected and decrement_selected reach those in between)
SelRange == {0, MaxItems}

\* the queries handed to set_filter, the empty string among them
Queries == { <<>>, <<a>>, <<b>> }
FilterArgs == OptionOf(Queries)

SeqsUpTo(S, lo, hi) == UNION { [1..k -> S] : k \in lo..hi }

\* an item of n lines
ItemOfHeight(n) == Item([i \in 1..n |-> <<SpanRaw(<<a>>)>>], "red")
HeightPool == { ItemOfHeight(n) : n \in 0..MaxItemHeight }

----------------------------------------------------------------------------
(* History: the last operation with its arguments and result, the state    *)
(* before it, and the argument of the latest set_filter call.  probe holds *)
(* the arguments and the result of a function that is examined on its own. *)

Call(op, q, index, w, h, start, end, panic) ==
    [op |-> op, q |-> q, index |-> index, w |-> w, h |-> h,
     start |-> start, end |-> end, panic |-> panic]

Snapshot == [offset |-> offset, selected |-> selected, filter |-> filter,
             filtered |-> filtered, lastq |-> lastq]

\* the operation leaves the state st and is recorded as call; a panic aborts
\* the program where it stands
Becomes(st, call) ==
    /\ ~last.panic
    /\ offset' = IF call.panic THEN offset ELSE st.offset
    /\ selected' = IF call.panic THEN selected ELSE st.selected
    /\ filter' = IF call.panic THEN filter ELSE st.filter
    /\ filtered' = IF call.panic THEN filtered ELSE st.filtered
    /\ pre' = Snapshot
    /\ last' = call
    /\ UNCHANGED <<matcher, original, probe>>

----------------------------------------------------------------------------
(* The state machine: FuzzyListState::with_items, then any sequence of     *)
(* set_filter, select, increment_selected, decrement_selected and render.  *)

\* FuzzyListState::with_items(items)
Init ==
    /\ items \in SeqsUpTo(TextPool, 0, MaxItems)
    /\ matcher = SkimMatcherV2
    /\ offset = 0
    /\ selected = None
    /\ filter = None
    /\ filtered = <<>>
    /\ original = items
    /\ lastq = None
    /\ pre = Snapshot
    /\ last = Call("with_items", None, None, 0, 0, 0, 0, FALSE)
    /\ probe = None

\* the list areas render is called with: <<width, height>>
RenderAreas == {<<0, 1>>} \cup {<<1, h>> : h \in 0..MaxHeight}

Select ==
    \E index \in OptionOf(SelRange) :
        /\ Becomes(select(State, index), Call("select", None, index, 0, 0, 0, 0, FALSE))
        /\ UNCHANGED <<items, lastq>>

IncrementSelected ==
    /\ unwrap_or(selected, 0) < MaxItems
    /\ Becomes(increment_selected(State), Call("increment_selected", None, None, 0, 0, 0, 0, FALSE))
    /\ UNCHANGED <<items, lastq>>

DecrementSelected ==
    /\ Becomes(decrement_selected(State), Call("decrement_selected", None, None, 0, 0, 0, 0, FALSE))
    /\ UNCHANGED <<items, lastq>>

\* faulty variant: a new query leaves the selection alone
SetFilterKeepsSelection ==
    \E q \in FilterArgs :
        LET r == [set_filter(State, items, matcher, q) EXCEPT !.selected = selected]
        IN  /\ Becomes(r, Call("set_filter", q, None, 0, 0, 0, 0, r.panic))
            /\ items' = IF r.panic THEN items ELSE r.items
            /\ lastq' = Some(q)

\* faulty variant: clearing the filter leaves the view as it was
SetFilterKeepsView ==
    \E q \in FilterArgs :
        LET r0 == set_filter(State, items, matcher, q)
            r == IF is_none(r0.filter) THEN [r0 EXCEPT !.filtered = filtered] ELSE r0
        IN  /\ Becomes(r, Call("set_filter", q, None, 0, 0, 0, 0, r.panic))
            /\ items' = IF r.panic THEN items ELSE r.items
            /\ lastq' = Some(q)

\* faulty variant: clearing the filter goes through select(None)
SetFilterClearDeselects ==
    \E q \in FilterArgs :
        LET r0 == set_filter(State, items, matcher, q)
            r == IF is_none(r0.filter) /\ is_some(filter)
                 THEN [r0 EXCEPT !.selected = None, !.offset = 0]
                 ELSE r0
        IN  /\ Becomes(r, Call("set_filter", q, None, 0, 0, 0, 0, r.panic))
            /\ items' = IF r.panic THEN items ELSE r.items
            /\ lastq' = Some(q)

SetFilter ==
    \E q \in FilterArgs :
        \E r \in {set_filter(State, items, matcher, q)} :
            /\ Becomes(r, Call("set_filter", q, None, 0, 0, 0, 0, r.panic))
            /\ items' = IF r.panic THEN items ELSE r.items
            /\ lastq' = Some(q)

Render ==
    \E area \in RenderAreas :
        \E r \in {render(State, items, area[1], area[2])} :
            /\ Becomes([State EXCEPT !.offset = r.offset],
                       Call("render", None, None, area[1], area[2], r.start, r.end, r.panic))
            /\ UNCHANGED <<items, lastq>>

Next ==
    \/ Select
    \/ IncrementSelected
    \/ DecrementSelected
    \/ SetFilter
    \/ Render

Spec == Init /\ [][Next]_vars

----------------------------------------------------------------------------
(* The window computation as a function: get_items_bounds applied to any   *)
(* non-empty list, any offset, any selected and any height.                *)

InitBounds ==
    /\ items \in SeqsUpTo(HeightPool, 1, MaxList)
    /\ matcher = SkimMatcherV2
    /\ offset \in 0..MaxList
    /\ selected \in OptionOf(0..MaxList)
    /\ filter = None
    /\ filtered = <<>>
    /\ original = items
    /\ lastq = None
    /\ pre = Snapshot
    /\ last = Call("new", None, None, 0, 0, 0, 0, FALSE)
    /\ probe = None

GetItemsBounds ==
    \E h \in 0..MaxBudget :
        \E r \in {get_items_bounds(items, selected, offset, h)} :
            /\ last' = Call("get_items_bounds", None, None, 1, h, r.start, r.end, r.panic)
            /\ UNCHANGED <<offset, selected, filter, items, filtered, matcher,
                           original, lastq, pre, probe>>

NextBounds == GetItemsBounds

SpecBounds == InitBounds /\ [][NextBounds]_vars

----------------------------------------------------------------------------
(* get_items_bounds on the lists above and on a list of five one-line      *)
(* items, with offset and selected up to one past the end of the list.     *)

ExampleHeights == <<1, 1, 1, 1, 1>>
ExampleList == [i \in 1..Len(ExampleHeights) |-> ItemOfHeight(ExampleHeights[i])]

InitWindow ==
    /\ items \in SeqsUpTo(HeightPool, 1, MaxList) \cup {ExampleList}
    /\ matcher = SkimMatcherV2
    /\ offset \in 0..Len(items)
    /\ selected \in OptionOf(0..Len(items))
    /\ filter = None
    /\ filtered = <<>>
    /\ original = items
    /\ lastq = None
    /\ pre = Snapshot
    /\ last = Call("new", None, None, 0, 0, 0, 0, FALSE)
    /\ probe = None

NextWindow == GetItemsBounds

SpecWindow == InitWindow /\ [][NextWindow]_vars

----------------------------------------------------------------------------
(* The highlighting of one segment as a function of the segment, the query *)
(* and the answer of the matcher.  The matcher is a Rc<dyn FuzzyMatcher>,  *)
(* so its answer is an input: None, or Some(indices) of which the closure  *)
(* reads the first.                                                        *)

\* the segments: a text of up to MaxSegment characters, raw or styled
Texts == SeqsUpTo({a, b}, 0, MaxSegment)
StylePool == {DefaultStyle, "yellow"}
SegmentPool == { Span(t, st) : t \in Texts, st \in StylePool }

\* the queries matches is called with (set_filter passes no empty one)
Patterns == SeqsUpTo({a, b}, 1, MaxQuery)

\* what matcher.fuzzy_indices returns
Answers == {None, Some(<<>>)} \cup { Some(<<i>>) : i \in 0..MaxIndex }

InitMatch ==
    /\ items = <<>>
    /\ matcher = SkimMatcherV2
    /\ offset = 0
    /\ selected = None
    /\ filter = None
    /\ filtered = <<>>
    /\ original = items
    /\ lastq = None
    /\ pre = Snapshot
    /\ last = Call("new", None, None, 0, 0, 0, 0, FALSE)
    /\ \E span \in SegmentPool, pattern \in Patterns, answer \in Answers :
           probe = [span |-> span, pattern |-> pattern, answer |-> answer,
                    filter_style |-> "red", out |-> None]

\* the closure of matches runs on the segment
Matches ==
    /\ is_none(probe.out)
    /\ probe' = [probe EXCEPT !.out = Some(span_rewrite(probe.span, probe.answer,
                                                        probe.pattern,
                                                        probe.filter_style))]
    /\ UNCHANGED <<offset, selected, filter, items, filtered, matcher,
                   original, lastq, pre, last>>

NextMatch == Matches

SpecMatch == InitMatch /\ [][NextMatch]_vars

----------------------------------------------------------------------------
(* Scrolling: runs of increment_selected and render on a fixed list with a *)
(* fixed list area of one column and probe.h rows.  probe keeps the starts *)
(* of the windows of the last two renders that drew.                       *)

InitScroll ==
    /\ items \in SeqsUpTo(HeightPool, 1, MaxList)
    /\ matcher = SkimMatcherV2
    /\ offset \in 0..MaxList
    /\ selected \in OptionOf(0..MaxList)
    /\ filter = None
    /\ filtered = <<>>
    /\ original = items
    /\ lastq = None
    /\ pre = Snapshot
    /\ last = Call("new", None, None, 0, 0, 0, 0, FALSE)
    /\ \E h \in 0..MaxBudget :
           probe = [h |-> h, prev |-> None, cur |-> None, panic |-> FALSE]

\* increment_selected(), also past the end of the list
ScrollIncrement ==
    /\ ~probe.panic
    /\ unwrap_or(selected, 0) <= MaxList
    /\ \E st \in {increment_selected(State)} :
           /\ offset' = st.offset
           /\ selected' = st.selected
    /\ UNCHANGED <<filter, items, filtered, matcher, original, lastq, pre, last,
                   probe>>

\* render on the fixed area
ScrollRender ==
    /\ ~probe.panic
    /\ \E r \in {render(State, items, 1, probe.h)} :
           /\ offset' = IF r.panic THEN offset ELSE r.offset
           /\ probe' = IF r.panic THEN [probe EXCEPT !.panic = TRUE]
                       ELSE IF r.drawn
                       THEN [probe EXCEPT !.prev = probe.cur, !.cur = Some(r.start)]
                       ELSE probe
    /\ UNCHANGED <<selected, filter, items, filtered, matcher, original, lastq,
                   pre, last>>

NextScroll == ScrollIncrement \/ ScrollRender

SpecScroll == InitScroll /\ [][NextScroll]_vars

----------------------------------------------------------------------------
(* Vocabulary of the properties *)

RECURSIVE MaxOf(_)
MaxOf(S) == IF S = {} THEN 0
            ELSE LET x == CHOOSE y \in S : TRUE
                     r == MaxOf(S \ {x})
                 IN  IF x > r THEN x ELSE r

\* the height of the tallest item
Tallest(its) == MaxOf({height(its[i]) : i \in 1..Len(its)})

\* the state before the last operation
PreState == [offset |-> pre.offset, selected |-> pre.selected,
             filter |-> pre.filter, filtered |-> pre.filtered]

\* a span of the item satisfies the query
ItemMatches(item, m, q) ==
    \E i \in 1..Len(item.content) :
        \E j \in 1..Len(item.content[i]) :
            is_some(fuzzy_indices(m, item.content[i][j].content, q))

\* the positions of the Collection whose item matches the query
MatchingIndices(its, m, q) == {i \in 1..Len(its) : ItemMatches(its[i], m, q)}

\* a copy of an item: the same text, line by line, and the same two styles
SameItem(copy, item) ==
    /\ ItemText(copy) = ItemText(item)
    /\ copy.style = item.style
    /\ copy.filter_style = item.filter_style

\* the numbers of S in increasing order
RECURSIVE Ascending(_)
Ascending(S) ==
    IF S = {} THEN <<>>
    ELSE LET x == CHOOSE y \in S : \A z \in S : y <= z
         IN  <<x>> \o Ascending(S \ {x})

\* view holds copies of exactly the items of its at the positions idx, in order
IsViewOf(view, its, idx) ==
    LET f == Ascending(idx)
    IN  /\ Len(view) = Len(f)
        /\ \A k \in 1..Len(view) : SameItem(view[k], its[f[k]])

NonEmptyQuery(arg) == is_some(arg) /\ Len(arg[1]) > 0
EmptyQuery(arg) == is_none(arg) \/ Len(arg[1]) = 0

\* the last operation was a set_filter call with a non-empty query that is not
\* the filter in force
FilterChanged ==
    last.op = "set_filter" /\ NonEmptyQuery(last.q) /\ pre.filter # last.q

\* the last operation was a set_filter call that cleared a filter in force
FilterCleared ==
    last.op = "set_filter" /\ EmptyQuery(last.q) /\ is_some(pre.filter)

----------------------------------------------------------------------------
(* C1 *)

\* C1: windowing invariant. For a non-empty list, any offset, any selected
\* index (one beyond the list counts as the last item) and a max_height that
\* is at least the tallest item's height, get_items_bounds returns (start, end)
\* with 0 <= start <= selected < end <= len(items).
C1_WindowHoldsSelected ==
    (last.op = "get_items_bounds" /\ is_some(selected) /\ last.h >= Tallest(items)) =>
        LET sel == Min(selected[1], Len(items) - 1)
        IN  /\ ~last.panic
            /\ 0 <= last.start
            /\ last.start <= sel
            /\ sel < last.end
            /\ last.end <= Len(items)

\* a selected index beyond the list, below a window that had to scroll down
C1_Witness ==
    /\ last.op = "get_items_bounds"
    /\ is_some(selected)
    /\ selected[1] >= Len(items)
    /\ last.h >= Tallest(items)
    /\ offset = 0
    /\ last.start > 0
    /\ last.end = Len(items)

----------------------------------------------------------------------------
(* C2 *)

\* C2: cursor invariant. In every reachable state, selected = None implies
\* offset = 0.
C2_NoSelectionNoOffset == is_none(selected) => offset = 0

----------------------------------------------------------------------------
(* C3 *)

\* C3: when set_filter changes the filter to a new non-empty query, the
\* resulting FilteredView holds exactly the items of the full Collection that
\* match the new query, in Collection order, whatever the previous filter and
\* the previous FilteredView were.
C3_RescanOfCollection ==
    FilterChanged =>
        /\ ~last.panic
        /\ filter = last.q
        /\ IsViewOf(filtered, original, MatchingIndices(original, matcher, last.q[1]))

\* a second query whose view holds an item the first query's view had dropped
C3_Witness ==
    /\ FilterChanged
    /\ is_some(pre.filter)
    /\ Len(pre.filtered) > 0
    /\ Len(filtered) > Len(pre.filtered)
    /\ \E i \in MatchingIndices(items, matcher, last.q[1]) :
           ~ItemMatches(items[i], matcher, pre.filter[1])

----------------------------------------------------------------------------
(* C4 *)

\* C4: every set_filter call that changes the filter to a new non-empty query
\* leaves selected = None, whatever was selected before and whether or not an
\* item matches.
C4_FilterChangeDeselects ==
    FilterChanged => ~last.panic /\ is_none(selected)

\* an item was selected, and the new query matches nothing
C4_Witness ==
    /\ FilterChanged
    /\ is_some(pre.selected)
    /\ Len(items) > 0
    /\ Len(filtered) = 0
    /\ is_none(selected)

----------------------------------------------------------------------------
(* C5 *)

\* C5: round trip. set_filter(Some(q)) followed by set_filter(None) makes
\* get_items() the full original Collection, in the original order.
C5_RoundTrip ==
    (last.op = "set_filter" /\ is_none(last.q)
        /\ is_some(pre.lastq) /\ NonEmptyQuery(pre.lastq[1])) =>
        /\ ~last.panic
        /\ get_items(State, items) = original

\* the query had narrowed the visible items, and they are all back
C5_Witness ==
    /\ last.op = "set_filter"
    /\ is_none(last.q)
    /\ is_some(pre.lastq)
    /\ NonEmptyQuery(pre.lastq[1])
    /\ Len(pre.filtered) > 0
    /\ Len(pre.filtered) < Len(original)
    /\ get_items(State, items) = original

----------------------------------------------------------------------------
(* C6 *)

\* C6: idempotence. A set_filter(q) call whose q is that of the set_filter
\* call before it (select, increment_selected, decrement_selected and render
\* may lie between) leaves FilteredView, filter, selected and offset as they were.
C6_SameQueryIsNoOp ==
    (last.op = "set_filter" /\ pre.lastq = Some(last.q)) =>
        ~last.panic /\ State = PreState

\* the repeated query is in force, with an item selected in a scrolled window
C6_Witness ==
    /\ last.op = "set_filter"
    /\ pre.lastq = Some(last.q)
    /\ NonEmptyQuery(last.q)
    /\ Len(filtered) > 0
    /\ is_some(selected)
    /\ offset > 0
    /\ State = PreState

----------------------------------------------------------------------------
(* C7 *)

\* C7: clearing a filter (set_filter(None) or set_filter(Some("")) while a
\* filter is in force) empties FilteredView and leaves selected and offset
\* unchanged.
C7_ClearKeepsCursor ==
    FilterCleared =>
        /\ ~last.panic
        /\ filtered = <<>>
        /\ selected = pre.selected
        /\ offset = pre.offset

\* a non-empty view is emptied under a selection in a scrolled window
C7_Witness ==
    /\ FilterCleared
    /\ Len(pre.filtered) > 0
    /\ filtered = <<>>
    /\ is_some(selected)
    /\ offset > 0

----------------------------------------------------------------------------
(* C8 *)

\* C8: filter normalization. From every reachable state set_filter(Some(""))
\* leaves the state set_filter(None) leaves, and get_filter() is never
\* Some of the empty string.
C8_EmptyQueryIsNone ==
    /\ get_filter(State) # Some(<<>>)
    /\ ~last.panic =>
           set_filter(State, items, matcher, Some(<<>>))
               = set_filter(State, items, matcher, None)
    /\ (last.op = "set_filter" /\ last.q = Some(<<>>)) =>
           /\ ~last.panic
           /\ State = [s \in {"offset", "selected", "filter", "filtered"} |->
                          set_filter(PreState, items, matcher, None)[s]]

\* set_filter(Some("")) was called on a filter in force and cleared it
C8_Witness ==
    /\ last.op = "set_filter"
    /\ last.q = Some(<<>>)
    /\ is_some(pre.filter)
    /\ Len(pre.filtered) > 0
    /\ is_none(filter)
    /\ filtered = <<>>

----------------------------------------------------------------------------
(* C9 *)

\* C9: get_items() is FilteredView when that is non-empty and the full
\* Collection otherwise; so under a filter that matches no item it is the
\* full Collection.
C9_VisibleItems ==
    /\ Len(filtered) > 0 => get_items(State, items) = filtered
    /\ Len(filtered) = 0 => get_items(State, items) = items
    /\ (is_some(filter) /\ MatchingIndices(items, matcher, filter[1]) = {}) =>
           get_items(State, items) = items

\* a filter that matches nothing is in force and render drew the Collection
C9_Witness ==
    /\ is_some(filter)
    /\ Len(items) > 0
    /\ MatchingIndices(items, matcher, filter[1]) = {}
    /\ last.op = "render"
    /\ last.end = Len(items)
    /\ get_items(State, items) = items

----------------------------------------------------------------------------
(* C10 *)

\* C10: FilteredView invariant. With no filter FilteredView is empty; with the
\* filter Some(q) it is an order-preserving subsequence of the Collection (as
\* index positions) whose every element matches q.
C10_ViewInvariant ==
    /\ is_none(filter) => filtered = <<>>
    /\ is_some(filter) =>
           \E idx \in SUBSET (1..Len(items)) :
               /\ IsViewOf(filtered, items, idx)
               /\ \A i \in idx : ItemMatches(items[i], matcher, filter[1])

\* a filter in force whose view is a proper, non-empty part of the Collection
C10_Witness ==
    /\ is_some(filter)
    /\ Len(filtered) > 0
    /\ Len(filtered) < Len(items)

----------------------------------------------------------------------------
(* C11 *)

\* a copy in FilteredView that the highlighting rewrote: no item of the
\* Collection has its segments
RewrittenCopies == {k \in 1..Len(filtered) :
                       \A i \in 1..Len(items) : filtered[k] # items[i]}

\* C11: the Collection is never changed after construction. After any sequence
\* of set_filter, select, increment_selected, decrement_selected and render it
\* has the length, the order and the segments (text and style) that
\* with_items gave it; the highlighting rewrites only the copies in
\* FilteredView.
C11_CollectionUntouched == items = original

\* set_filter left a rewritten copy in FilteredView and the Collection is as
\* constructed
C11_Witness ==
    /\ last.op = "set_filter"
    /\ ~last.panic
    /\ RewrittenCopies # {}
    /\ items = original

----------------------------------------------------------------------------
(* C12 *)

\* get_items_bounds returned for a valid selection
BoundsFor(sel) ==
    /\ last.op = "get_items_bounds"
    /\ selected = Some(sel)
    /\ sel < Len(items)

\* C12: for a non-empty list, when the selected item is taller than max_height
\* the returned window shows the selected item alone: start = selected and
\* end = start + 1.
C12_OversizedShownAlone ==
    \A sel \in 0..MaxList :
        (BoundsFor(sel) /\ height(items[sel + 1]) > last.h) =>
            /\ ~last.panic
            /\ last.start = sel
            /\ last.end = last.start + 1

----------------------------------------------------------------------------
(* C13 *)

\* the sum of the heights of the items in [start, end)
RECURSIVE SumHeights(_, _, _)
SumHeights(its, start, end) ==
    IF start >= end THEN 0
    ELSE height(its[start + 1]) + SumHeights(its, start + 1, end)

\* C13: for every non-empty list whose every item is at most max_height tall,
\* every offset and every selected, get_items_bounds returns a range
\* [start, end) whose heights sum to at most max_height.
C13_HeightBudget ==
    (last.op = "get_items_bounds" /\ Tallest(items) <= last.h) =>
        /\ ~last.panic
        /\ last.start <= last.end
        /\ last.end <= Len(items)
        /\ SumHeights(items, last.start, last.end) <= last.h

\* the window was moved down to a selection past the natural window and
\* fills the budget with more than one item
C13_Witness ==
    /\ last.op = "get_items_bounds"
    /\ Tallest(items) <= last.h
    /\ last.start > offset
    /\ last.end - last.start > 1
    /\ SumHeights(items, last.start, last.end) = last.h

----------------------------------------------------------------------------
(* C15 *)

\* C15: for every non-empty list of items of height >= 1, every offset and
\* every valid selected index, get_items_bounds with max_height equal to the
\* selected item's height returns a range with end - start = 1 that contains
\* the selected item.
C15_MinimalWindow ==
    \A sel \in 0..MaxList :
        ( /\ BoundsFor(sel)
          /\ \A i \in 1..Len(items) : height(items[i]) >= 1
          /\ last.h = height(items[sel + 1]) ) =>
            /\ ~last.panic
            /\ last.end - last.start = 1
            /\ last.start = sel

\* the budget is the selected item's height, the selected item is not the
\* tallest, and the window had to move to it
C15_Witness ==
    \E sel \in 0..MaxList :
        /\ BoundsFor(sel)
        /\ \A i \in 1..Len(items) : height(items[i]) >= 1
        /\ last.h = height(items[sel + 1])
        /\ last.h < Tallest(items)
        /\ offset # sel
        /\ last.start = sel
        /\ last.end = sel + 1

----------------------------------------------------------------------------
(* C16 *)

\* the step is a call of op
Calls(op) == last'.op = op /\ ~last'.panic

\* C16: increment_selected takes selected None to Some(0) and Some(i) to
\* Some(i + 1), with no clamp against the length of the active list;
\* decrement_selected takes Some(0) to Some(0), Some(i) with i > 0 to
\* Some(i - 1), and None to None; neither changes the filter, FilteredView or
\* the Collection.
C16_SelectionArithmetic ==
    [][ /\ Calls("increment_selected") =>
            /\ is_none(selected) => selected' = Some(0)
            /\ is_some(selected) => selected' = Some(selected[1] + 1)
            /\ UNCHANGED <<filter, filtered, items>>
        /\ Calls("decrement_selected") =>
            /\ is_none(selected) => selected' = None
            /\ selected = Some(0) => selected' = Some(0)
            /\ (is_some(selected) /\ selected[1] > 0) =>
                   selected' = Some(selected[1] - 1)
            /\ UNCHANGED <<filter, filtered, items>>
      ]_vars

\* increment_selected moved the selection past the end of the active list
C16_Witness ==
    /\ last.op = "increment_selected"
    /\ Len(items) > 0
    /\ is_some(pre.selected)
    /\ selected = Some(pre.selected[1] + 1)
    /\ selected[1] >= Len(get_items(State, items))

\* decrement_selected was called at index 0 and the selection stayed there
C16_WitnessAtZero ==
    /\ last.op = "decrement_selected"
    /\ pre.selected = Some(0)
    /\ selected = Some(0)

----------------------------------------------------------------------------
(* C20 *)

\* the list render drew, when it drew one
Drawn == get_items(PreState, items)
Drew == last.op = "render" /\ last.w >= 1 /\ last.h >= 1 /\ Len(Drawn) > 0

\* the window grown forward from min(offset, len(items) - 1)
NaturalStart == Min(pre.offset, Len(Drawn) - 1)
NaturalEnd == grow_window(Drawn, NaturalStart, 0, last.h).end

\* C20: when nothing is selected, or when the selected index lies inside the
\* natural window grown forward from min(offset, len(items) - 1),
\* get_items_bounds returns exactly that window, so the returned start (the
\* new offset) is min(offset, len(items) - 1).
C20_NoScrollChurn ==
    ( /\ Drew
      /\ \/ is_none(pre.selected)
         \/ /\ is_some(pre.selected)
            /\ NaturalStart <= pre.selected[1]
            /\ pre.selected[1] < NaturalEnd ) =>
        /\ ~last.panic
        /\ last.start = NaturalStart
        /\ last.end = NaturalEnd
        /\ offset = NaturalStart

----------------------------------------------------------------------------
(* C17 *)

\* the closure ran on the segment
Rewritten == probe # None /\ is_some(probe.out)
Out == probe.out[1]

\* C17: when the matcher reports no match for a segment, the segment is left
\* unchanged: the same text and the same style as before.
C17_NoMatchPassThrough ==
    (Rewritten /\ is_none(probe.answer)) =>
        /\ ~Out.panic
        /\ Out.spans = <<probe.span>>

----------------------------------------------------------------------------
(* C18 *)

\* the matcher reported a match at start index i that fits the segment
MatchAt(i) ==
    /\ Rewritten
    /\ probe.answer = Some(<<i>>)
    /\ i + Len(probe.pattern) <= Len(probe.span.content)

\* [prefix][matched in match style][suffix], an empty prefix or suffix omitted
SplitAt(content, i, q, fs) ==
    (IF i = 0 THEN <<>> ELSE <<SpanRaw(Slice(content, 0, i))>>)
    \o <<Span(Slice(content, i, i + q), fs)>>
    \o (IF i + q = Len(content) THEN <<>>
        ELSE <<SpanRaw(Slice(content, i + q, Len(content)))>>)

\* C18: for a match at start index i in a segment of length n and a query of
\* length q with i + q <= n, the segment is replaced by [text[0..i)]
\* [text[i..i+q) in match style] [text[i+q..n)], the prefix omitted when i = 0
\* and the suffix omitted when i + q = n; so no emitted segment is empty, there
\* are one to three of them, and their texts concatenate to the segment's text.
C18_SplitAroundMatch ==
    \A i \in 0..MaxIndex :
        MatchAt(i) =>
            /\ ~Out.panic
            /\ Out.spans = SplitAt(probe.span.content, i, Len(probe.pattern),
                                   probe.filter_style)
            /\ \A k \in 1..Len(Out.spans) : Len(Out.spans[k].content) > 0
            /\ Len(Out.spans) \in 1..3
            /\ LineText(Out.spans) = probe.span.content

----------------------------------------------------------------------------
(* C19 *)

\* C19: for every start index i the matcher answers with, i + q > n and a
\* query longer than the segment among the cases, the highlighting completes
\* without an out-of-bounds slice or an integer underflow.
C19_NoCrashOnAnyIndex ==
    \A i \in 0..MaxIndex :
        (Rewritten /\ probe.answer = Some(<<i>>)) => ~Out.panic

----------------------------------------------------------------------------
(* C14 *)

\* C14: in a run of increment_selected and render on a fixed list with a fixed
\* max_height that is at least the tallest item's height, with no
\* select(None) and no set_filter, the window start that render writes back
\* never decreases from one render to the next, also after selected has grown
\* past the end of the list.
C14_MonotonicOffset ==
    (probe.h >= Tallest(items) /\ is_some(probe.prev) /\ is_some(probe.cur)) =>
        /\ ~probe.panic
        /\ probe.cur[1] >= probe.prev[1]
        /\ offset = probe.cur[1]

\* the window moved down between two renders and selected is past the end of
\* the list
C14_Witness ==
    /\ probe.h >= Tallest(items)
    /\ is_some(probe.prev)
    /\ is_some(probe.cur)
    /\ probe.cur[1] > probe.prev[1]
    /\ is_some(selected)
    /\ selected[1] >= Len(items)

----------------------------------------------------------------------------
(* C21 *)

\* selected after the clamp to the last item, and the natural window
Clamped == Min(unwrap_or(selected, 0), Len(items) - 1)
WindowStart == Min(offset, Len(items) - 1)
WindowEnd == grow_window(items, WindowStart, 0, last.h).end

\* the selection lies at or beyond the end of the natural window and every
\* item fits the budget
BelowWindow ==
    /\ last.op = "get_items_bounds"
    /\ is_some(selected)
    /\ Tallest(items) <= last.h
    /\ Clamped >= WindowEnd

\* the smallest index s such that the heights of items s..sel fit max_height
SmallestStart(its, sel, max_height) ==
    CHOOSE s \in 0..sel :
        /\ SumHeights(its, s, sel + 1) <= max_height
        /\ \A t \in 0..(s - 1) : SumHeights(its, t, sel + 1) > max_height

\* C21: when the selected index lies at or beyond the end of the natural window
\* and every item fits the budget, get_items_bounds returns end = selected + 1
\* and start = the smallest index s such that the heights of items s..selected
\* sum to at most max_height, and render writes that start back as the offset;
\* heights [1,1,1,1,1], max_height 3, offset 0, selected 4 give (2, 5, 2).
C21_ScrollingDown ==
    /\ BelowWindow =>
           /\ ~last.panic
           /\ last.end = Clamped + 1
           /\ last.start = SmallestStart(items, Clamped, last.h)
           /\ last.h >= 1 => render(State, items, 1, last.h).offset = last.start
    /\ ( /\ last.op = "get_items_bounds"
         /\ items = ExampleList
         /\ offset = 0
         /\ selected = Some(4)
         /\ last.h = 3 ) =>
           /\ last.start = 2
           /\ last.end = 5
           /\ render(State, items, 1, last.h).offset = 2

\* the example: five one-line items, max_height 3, offset 0, selected 4
C21_Witness ==
    /\ BelowWindow
    /\ items = ExampleList
    /\ offset = 0
    /\ selected = Some(4)
    /\ last.h = 3
    /\ last.start = 2
    /\ last.end = 5

----------------------------------------------------------------------------
(* C22 *)

\* C22: for every non-empty list, every selected (None and values >= len
\* among them), every offset (values >= len among them) and every max_height
\* (0 and values below an item's height among them), get_items_bounds
\* returns: it reads no item index outside 0..len(items)-1 and takes neither
\* start nor end below 0.
C22_BoundsStayInRange ==
    (last.op = "get_items_bounds" /\ Len(items) > 0) =>
        /\ ~last.panic
        /\ 0 <= last.start
        /\ last.start <= last.end
        /\ last.end <= Len(items)

\* selected and offset are past the end of the list and max_height is below
\* an item's height; the call returned
C22_Witness ==
    /\ last.op = "get_items_bounds"
    /\ is_some(selected)
    /\ selected[1] >= Len(items)
    /\ offset >= Len(items)
    /\ last.h < Tallest(items)
    /\ ~last.panic
    /\ last.end <= Len(items)

\* nothing is selected and max_height is 0; the call returned
C22_WitnessNoBudget ==
    /\ last.op = "get_items_bounds"
    /\ is_none(selected)
    /\ last.h = 0
    /\ Tallest(items) > 0
    /\ ~last.panic

====
